---- MODULE Spec2Model ----
(***************************************************************************)
(* git_aggregator.config.get_repos: resolution of a {directory: repo_data} *)
(* mapping into a list of repo dictionaries, with the optional pre-flight  *)
(* of merge refs against the working copy of each directory.               *)
(*                                                                         *)
(* Text is a sequence of one-character strings.  A YAML scalar is a record *)
(* [t, s, n]: t = "str" carries the text s, t = "int" the integer n,       *)
(* t = "float" the number n/10 (one decimal digit), t = "none" is null.    *)
(* The pass-through keys of repo_data (defaults, skip_dry_run, apply_patch,*)
(* skip_repo_init, fetch_all, shell_command_after) raise nothing and feed  *)
(* no later test; they are left out of repo_dict.                          *)
(***************************************************************************)
EXTENDS Integers, Sequences, FiniteSets, TLC

\* ------------------------------------------------------------------ bounds
MaxDirs == 2
MaxMerges == 2
MaxCalls == 2

\* ------------------------------------------------------------ YAML scalars
StrV(s) == [t |-> "str", s |-> s, n |-> 0]
IntV(n) == [t |-> "int", s |-> <<>>, n |-> n]
FloatV(n) == [t |-> "float", s |-> <<>>, n |-> n]
NoneV == [t |-> "none", s |-> <<>>, n |-> 0]

Digit(d) == <<"0", "1", "2", "3", "4", "5", "6", "7", "8", "9">>[d + 1]

RECURSIVE IntToStr(_)
IntToStr(n) == IF n < 10 THEN <<Digit(n)>>
               ELSE Append(IntToStr(n \div 10), Digit(n % 10))

\* repr(x) in place of str(x): a text gains its quotes
StrRepr(v) ==
    CASE v.t = "str" -> <<"'">> \o v.s \o <<"'">>
      [] v.t = "int" -> IntToStr(v.n)
      [] v.t = "float" -> IntToStr(v.n \div 10) \o <<".">> \o IntToStr(v.n % 10)
      [] OTHER -> <<"N", "o", "n", "e">>

\* str(x) of Python for the scalars above
Str(v) ==
    CASE v.t = "str" -> v.s
      [] v.t = "int" -> IntToStr(v.n)
      [] v.t = "float" -> IntToStr(v.n \div 10) \o <<".">> \o IntToStr(v.n % 10)
      [] OTHER -> <<"N", "o", "n", "e">>

\* truth value of a scalar (the `not url` test)
Truthy(v) ==
    CASE v.t = "str" -> v.s /= <<>>
      [] v.t = "none" -> FALSE
      [] OTHER -> v.n /= 0

\* ------------------------------------------------------------------- text
Whitespace == {" ", "\t"}
HexDigits == {"0", "1", "2", "3", "4", "5", "6", "7", "8", "9",
              "a", "b", "c", "d", "e", "f", "A", "B", "C", "D", "E", "F"}

RECURSIVE SplitSpaceAcc(_, _, _)
SplitSpaceAcc(s, cur, acc) ==
    IF s = <<>> THEN Append(acc, cur)
    ELSE IF Head(s) = " " THEN SplitSpaceAcc(Tail(s), <<>>, Append(acc, cur))
    ELSE SplitSpaceAcc(Tail(s), Append(cur, Head(s)), acc)

\* merge.split(' '): one part per single space, empty parts kept
SplitSpace(s) == SplitSpaceAcc(s, <<>>, <<>>)

RECURSIVE SplitWhitespaceAcc(_, _, _)
SplitWhitespaceAcc(s, cur, acc) ==
    IF s = <<>> THEN (IF cur = <<>> THEN acc ELSE Append(acc, cur))
    ELSE IF Head(s) \in Whitespace
         THEN SplitWhitespaceAcc(Tail(s), <<>>,
                                 IF cur = <<>> THEN acc ELSE Append(acc, cur))
    ELSE SplitWhitespaceAcc(Tail(s), Append(cur, Head(s)), acc)

\* text.split(): runs of whitespace separate, no empty parts
SplitWhitespace(s) == SplitWhitespaceAcc(s, <<>>, <<>>)

\* repo.ishex: every character is a hexadecimal digit
ishex(s) == \A p \in 1..Len(s) : s[p] \in HexDigits

\* ------------------------------------------------------------------ paths
Path(abs, segs) == [abs |-> abs, segs |-> segs]
Getcwd == <<"w">>
isabs(p) == p.abs
abspath(p) == IF isabs(p) THEN p ELSE Path(TRUE, Getcwd \o p.segs)

\* ----------------------------------------------------- ConfigException kinds
E_NO_URL == "No url defined for remote"
E_NO_REMOTE == "You should at least define one remote"
E_REMOTES_UNDEF == "remotes is not defined"
E_MERGES_UNDEF == "merges is not defined"
E_MERGE_FORMAT == "Merge must be formatted as remote_name ref"
E_MERGE_KEYS == "Merge lacks mandatory remote or ref keys"
E_MERGE_REMOTE == "Merge remote not defined in remotes"
E_NO_MERGE == "You should at least define one merge"
E_TARGET_FORMAT == "Target must be formatted as [remote_name] branch_name"
E_TARGET_REMOTE == "Target remote not defined in remotes"

NoName == <<>>
ConfigException(code, directory, name) ==
    [code |-> code, dir |-> directory, name |-> name]
NoError == ConfigException("", Path(TRUE, <<>>), NoName)

\* what a call of get_repos gives back to its caller
Pending == [kind |-> "pending", list |-> <<>>, err |-> NoError]
Returned(l) == [kind |-> "list", list |-> l, err |-> NoError]
Raised(e) == [kind |-> "ConfigException", list |-> <<>>, err |-> e]
Crashed == [kind |-> "Exception", list |-> <<>>, err |-> NoError]

\* ---------------------------------------------------------- configuration
Remote(name, url) == [name |-> name, url |-> url]
RemotesKey(present, items) == [present |-> present, items |-> items]
MergeStr(s) ==
    [t |-> "str", s |-> s, hasRemote |-> FALSE, remote |-> NoneV,
     hasRef |-> FALSE, ref |-> NoneV]
MergeMap(hasRemote, remote, hasRef, ref) ==
    [t |-> "map", s |-> <<>>, hasRemote |-> hasRemote, remote |-> remote,
     hasRef |-> hasRef, ref |-> ref]
MergeOther ==
    [t |-> "int", s |-> <<>>, hasRemote |-> FALSE, remote |-> NoneV,
     hasRef |-> FALSE, ref |-> NoneV]
MergesKey(present, items) == [present |-> present, items |-> items]
TargetKey(present, v) == [present |-> present, v |-> v]
RepoData(r, m, t) == [remotes |-> r, merges |-> m, target |-> t]
Entry(dir, data) == [dir |-> dir, data |-> data]

\* a working copy on disk, as the Repo methods see it
WorkingCopy(exists, isrepo, rem) ==
    [exists |-> exists, isrepo |-> isrepo, remotes |-> rem]

\* ------------------------------------------------- the steps of get_repos
RECURSIVE FirstNoUrl(_, _)
\* index of the first remote whose url is false, 0 when every url is set
FirstNoUrl(items, k) ==
    IF k > Len(items) THEN 0
    ELSE IF ~Truthy(items[k].url) THEN k
    ELSE FirstNoUrl(items, k + 1)

Names(rems) == {rems[k].name : k \in 1..Len(rems)}

\* `remotes` present in repo_data: the loop over remotes_data.items()
ConfiguredRemotes(items, directory) ==
    LET bad == FirstNoUrl(items, 1) IN
    IF bad /= 0
    THEN [ok |-> FALSE, remotes |-> <<>>,
          err |-> ConfigException(E_NO_URL, directory, items[bad].name)]
    ELSE IF Names(items) = {}
    THEN [ok |-> FALSE, remotes |-> <<>>,
          err |-> ConfigException(E_NO_REMOTE, directory, NoName)]
    ELSE [ok |-> TRUE, remotes |-> items, err |-> NoError]

\* `remotes` absent: Repo(cwd, [], [], None)._get_remotes() under try/except
DiscoveredRemotes(w, directory) ==
    IF w.isrepo
    THEN [ok |-> TRUE, remotes |-> w.remotes, err |-> NoError]
    ELSE [ok |-> FALSE, remotes |-> <<>>,
          err |-> ConfigException(E_REMOTES_UNDEF, directory, NoName)]

\* the handle of line 76 is an object, true in a boolean test
IsTrue(handle) == handle /= "None"

\* variants of the test below: without the flag, without os.path.exists
AppliesRemotesAlways(skip, w) == w.exists

AppliesRemotesNoDisk(skip, w) == ~skip

\* the remotes are applied to the working copy: lines 75-77

AppliesRemotes(skip, w) == ~skip /\ w.exists

\* the ref is queried: line 107
QueriesRef(skip, handle, w) == ~skip /\ IsTrue(handle)

\* variant of the test below: a failed query drops the entry as well
DropsMergeOnError(outcome, ref) == outcome /= "found" /\ ~ishex(ref)

\* the entry is skipped: line 111

DropsMerge(outcome, ref) == outcome = "notfound" /\ ~ishex(ref)

\* one merge entry to {remote, ref}: lines 82-101.  entry is what the
\* configuration holds afterwards (a mapping is coerced in place).
NoMerge == [remote |-> <<>>, ref |-> <<>>]
ParseMerge(e) ==
    IF e.t = "str"
    THEN LET parts == SplitSpace(e.s) IN
         IF Len(parts) /= 2
         THEN [status |-> E_MERGE_FORMAT, merge |-> NoMerge, entry |-> e]
         ELSE [status |-> "ok", entry |-> e,
               merge |-> [remote |-> parts[1], ref |-> parts[2]]]
    ELSE IF e.t = "map"
    THEN IF ~e.hasRemote
         THEN [status |-> E_MERGE_KEYS, merge |-> NoMerge, entry |-> e]
         ELSE LET e1 == [e EXCEPT !.remote = StrV(Str(e.remote))] IN
              IF ~e.hasRef
              THEN [status |-> E_MERGE_KEYS, merge |-> NoMerge, entry |-> e1]
              ELSE LET e2 == [e1 EXCEPT !.ref = StrV(Str(e.ref))] IN
                   [status |-> "ok", entry |-> e2,
                    merge |-> [remote |-> e2.remote.s, ref |-> e2.ref.s]]
    ELSE [status |-> "TypeError", merge |-> NoMerge, entry |-> e]

\* variant of the test below: on the entries given, not on those left
NoMergeGiven(left, given) == given = <<>>

\* line 122: nothing is left of the merges

NoMergeLeft(left, given) == left = <<>>

\* variant of the test below: any remote name passes
MergeRemoteAny(merge, names) == TRUE

\* line 103: the merge's remote is one of remote_names

MergeRemoteDefined(merge, names) == merge.remote \in names

\* the values of lines 139-158
DefaultBranch == <<"_", "g", "i", "t", "_", "a", "g", "g", "r", "e", "g", "a", "t", "e", "d">>
NoRemote == [some |-> FALSE, name |-> <<>>]
SomeRemote(name) == [some |-> TRUE, name |-> name]
Target(remote, branch) == [remote |-> remote, branch |-> branch]
TargetError(code, directory, name) ==
    [ok |-> FALSE, target |-> Target(NoRemote, <<>>),
     err |-> ConfigException(code, directory, name)]
TargetOk(t) == [ok |-> TRUE, target |-> t, err |-> NoError]

TargetValue(data) == IF data.target.present THEN data.target.v ELSE StrV(<<>>)

\* variant of ResolveTarget: the remote of a two-token target is not looked up
ResolveTargetUnchecked(data, names, directory) ==
    LET parts == SplitWhitespace(Str(TargetValue(data))) IN
    CASE Len(parts) = 0 -> TargetOk(Target(NoRemote, DefaultBranch))
      [] Len(parts) = 1 -> TargetOk(Target(NoRemote, parts[1]))
      [] Len(parts) = 2 -> TargetOk(Target(SomeRemote(parts[1]), parts[2]))
      [] OTHER -> TargetError(E_TARGET_FORMAT, directory, NoName)

\* variant of ResolveTarget: split(' ') in place of split()
ResolveTargetSplitSpace(data, names, directory) ==
    LET parts == SplitSpace(Str(TargetValue(data))) IN
    CASE Len(parts) = 0 -> TargetOk(Target(NoRemote, DefaultBranch))
      [] Len(parts) = 1 -> TargetOk(Target(NoRemote, parts[1]))
      [] Len(parts) = 2 ->
           IF parts[1] \notin names
           THEN TargetError(E_TARGET_REMOTE, directory, parts[1])
           ELSE TargetOk(Target(SomeRemote(parts[1]), parts[2]))
      [] OTHER -> TargetError(E_TARGET_FORMAT, directory, NoName)

\* lines 138-158: the target by its number of tokens
ResolveTarget(data, names, directory) ==
    LET parts == SplitWhitespace(Str(TargetValue(data))) IN
    CASE Len(parts) = 0 -> TargetOk(Target(NoRemote, DefaultBranch))
      [] Len(parts) = 1 -> TargetOk(Target(NoRemote, parts[1]))
      [] Len(parts) = 2 ->
           IF parts[1] \notin names
           THEN TargetError(E_TARGET_REMOTE, directory, parts[1])
           ELSE TargetOk(Target(SomeRemote(parts[1]), parts[2]))
      [] OTHER -> TargetError(E_TARGET_FORMAT, directory, NoName)

\* Repo._set_remote: add the remote, or change the url of an existing one
RECURSIVE SetUrl(_, _, _)
SetUrl(rems, name, url) ==
    IF rems = <<>> THEN <<Remote(name, url)>>
    ELSE IF Head(rems).name = name THEN <<Remote(name, url)>> \o Tail(rems)
    ELSE <<Head(rems)>> \o SetUrl(Tail(rems), name, url)

\* Repo.query_remote_ref: what `git ls-remote` can answer in this directory
QueryOutcomes(w) ==
    IF w.isrepo THEN {"found", "notfound", "error"} ELSE {"error"}

\* ------------------------------------------------------------------ state
VARIABLES
    config,            \* the caller's mapping, as the ordered items (dir, data)
    force,             \* flag of the call
    skip_merge_check,  \* flag of the call
    wc,                \* the working copies on disk, by absolute path
    wc0,               \* the working copies as they were when the call began
    pc,                \* position of the call in get_repos
    di,                \* index of the directory being resolved
    remotes,           \* repo_dict['remotes']
    remote_names,      \* remote_names
    tmp_repo,          \* "None" or "Repo": the handle of lines 74-76
    si,                \* remotes already passed to _set_remote
    mi,                \* merge entries already processed
    merges,            \* merges
    repo_list,         \* repo_list
    ret,               \* what the call gave back
    calls,             \* the Repo methods called so far by this call
    outcomes,          \* per processed entry of this directory: what happened
    ncall,             \* number of the call on this mapping
    prev               \* what the previous call gave back

vars == <<config, force, skip_merge_check, wc, wc0, pc, di, remotes, remote_names,
          tmp_repo, si, mi, merges, repo_list, ret, calls, outcomes, ncall,
          prev>>

Call(op, d, remote, arg) == [op |-> op, d |-> d, remote |-> remote, arg |-> arg]

\* lines 30-31
directory ==
    IF ~isabs(config[di].dir) THEN abspath(config[di].dir) ELSE config[di].dir
repo_data == config[di].data
merge_data == repo_data.merges.items

\* variant of Fail: the directory is skipped and the loop goes on
FailAndSkip(e) ==
    /\ pc' = "remotes"
    /\ ret' = ret
    /\ di' = di + 1
    /\ repo_list' = repo_list

\* raise ConfigException(...): the call ends, nothing is returned
Fail(e) ==
    /\ pc' = "raised"
    /\ ret' = Raised(e)
    /\ di' = di
    /\ repo_list' = repo_list

\* lines 29-70: the next directory's remotes
NormalizeRemotes ==
    /\ pc = "remotes"
    /\ di <= Len(config)
    /\ LET r == IF repo_data.remotes.present
                THEN ConfiguredRemotes(repo_data.remotes.items, directory)
                ELSE DiscoveredRemotes(wc[directory], directory)
       IN /\ calls' = IF repo_data.remotes.present THEN calls
                      ELSE Append(calls, Call("listRemotes", di, <<>>, NoneV))
          /\ IF r.ok
             THEN /\ remotes' = r.remotes
                  /\ remote_names' = Names(r.remotes)
                  /\ pc' = "merges"
                  /\ UNCHANGED <<ret, di, repo_list>>
             ELSE /\ Fail(r.err)
                  /\ UNCHANGED <<remotes, remote_names>>
    /\ UNCHANGED <<config, force, skip_merge_check, wc, wc0, tmp_repo, si, mi,
                   merges, outcomes, ncall, prev>>

\* lines 71-77 and 125-127: the merges key, the handle on the working copy
BeginMerges ==
    /\ pc = "merges"
    /\ IF ~repo_data.merges.present
       THEN /\ Fail(ConfigException(E_MERGES_UNDEF, directory, NoName))
            /\ UNCHANGED <<tmp_repo, merges, si, mi, outcomes>>
       ELSE /\ merges' = <<>>
            /\ tmp_repo' = IF ~skip_merge_check THEN "Repo" ELSE "None"
            /\ si' = 0
            /\ mi' = 0
            /\ outcomes' = <<>>
            /\ pc' = IF AppliesRemotes(skip_merge_check, wc[directory])
                     THEN "set_remote" ELSE "merge"
            /\ UNCHANGED <<ret, di, repo_list>>
    /\ UNCHANGED <<config, force, skip_merge_check, wc, wc0, remotes,
                   remote_names, calls, ncall, prev>>

\* lines 79-80: one tmp_repo._set_remote(**remote)
SetRemote ==
    /\ pc = "set_remote"
    /\ IF si = Len(remotes)
       THEN /\ pc' = "merge"
            /\ UNCHANGED <<wc, si, calls, ret>>
       ELSE LET remote == remotes[si + 1] IN
            /\ calls' = Append(calls, Call("setRemote", di, remote.name, remote.url))
            /\ IF wc[directory].isrepo
               THEN /\ wc' = [wc EXCEPT ![directory].remotes =
                                 SetUrl(@, remote.name, remote.url)]
                    /\ si' = si + 1
                    /\ UNCHANGED <<pc, ret>>
               ELSE /\ pc' = "crashed"
                    /\ ret' = Crashed
                    /\ UNCHANGED <<wc, si>>
    /\ UNCHANGED <<config, force, skip_merge_check, wc0, di, remotes,
                   remote_names, tmp_repo, mi, merges, repo_list, outcomes,
                   ncall, prev>>

\* lines 81-120: one iteration of the loop over merge_data
ProcessMerge ==
    /\ pc = "merge"
    /\ mi < Len(merge_data)
    /\ LET p == ParseMerge(merge_data[mi + 1])
           merge == p.merge
       IN /\ config' = [config EXCEPT ![di].data.merges.items[mi + 1] = p.entry]
          /\ IF p.status = "TypeError"
             THEN /\ pc' = "crashed"
                  /\ ret' = Crashed
                  /\ UNCHANGED <<mi, merges, calls, outcomes, di, repo_list>>
             ELSE IF p.status /= "ok"
             THEN /\ Fail(ConfigException(p.status, directory, NoName))
                  /\ UNCHANGED <<mi, merges, calls, outcomes>>
             ELSE IF ~MergeRemoteDefined(merge, remote_names)
             THEN /\ Fail(ConfigException(E_MERGE_REMOTE, directory, merge.remote))
                  /\ UNCHANGED <<mi, merges, calls, outcomes>>
             ELSE /\ mi' = mi + 1
                  /\ UNCHANGED <<pc, ret, di, repo_list>>
                  /\ IF QueriesRef(skip_merge_check, tmp_repo, wc[directory])
                     THEN /\ calls' = Append(calls, Call("queryRemoteRef", di,
                                                          merge.remote, StrV(merge.ref)))
                          /\ \E outcome \in QueryOutcomes(wc[directory]) :
                                /\ outcomes' = Append(outcomes, outcome)
                                /\ merges' = IF DropsMerge(outcome, merge.ref)
                                             THEN merges
                                             ELSE Append(merges, merge)
                     ELSE /\ calls' = calls
                          /\ outcomes' = Append(outcomes, "unchecked")
                          /\ merges' = Append(merges, merge)
    /\ UNCHANGED <<force, skip_merge_check, wc, wc0, remotes, remote_names,
                   tmp_repo, si, ncall, prev>>

\* lines 121-168: the merges that are left, the target, the repo_dict
FinishDirectory ==
    /\ pc = "merge"
    /\ mi = Len(merge_data)
    /\ IF NoMergeLeft(merges, merge_data)
       THEN Fail(ConfigException(E_NO_MERGE, directory, NoName))
       ELSE LET t == ResolveTarget(repo_data, remote_names, directory) IN
            IF ~t.ok
            THEN Fail(t.err)
            ELSE /\ repo_list' = Append(repo_list,
                                        [cwd |-> directory, force |-> force,
                                         remotes |-> remotes, merges |-> merges,
                                         target |-> t.target])
                 /\ di' = di + 1
                 /\ pc' = "remotes"
                 /\ ret' = ret
    /\ UNCHANGED <<config, force, skip_merge_check, wc, wc0, remotes,
                   remote_names, tmp_repo, si, mi, merges, calls, outcomes,
                   ncall, prev>>

\* line 169
Return ==
    /\ pc = "remotes"
    /\ di > Len(config)
    /\ pc' = "returned"
    /\ ret' = Returned(repo_list)
    /\ UNCHANGED <<config, force, skip_merge_check, wc, wc0, di, remotes,
                   remote_names, tmp_repo, si, mi, merges, repo_list, calls,
                   outcomes, ncall, prev>>

Ended == pc \in {"returned", "raised", "crashed"}

\* lines 19, 28: the caller resolves the same mapping again, same flags
CallAgain ==
    /\ Ended
    /\ ncall < MaxCalls
    /\ ncall' = ncall + 1
    /\ prev' = ret
    /\ ret' = Pending
    /\ pc' = "remotes"
    /\ di' = 1
    /\ repo_list' = <<>>
    /\ calls' = <<>>
    /\ remotes' = <<>>
    /\ remote_names' = {}
    /\ tmp_repo' = "None"
    /\ si' = 0
    /\ mi' = 0
    /\ merges' = <<>>
    /\ outcomes' = <<>>
    /\ wc0' = wc
    /\ UNCHANGED <<config, force, skip_merge_check, wc>>

Next ==
    \/ NormalizeRemotes
    \/ BeginMerges
    \/ SetRemote
    \/ ProcessMerge
    \/ FinishDirectory
    \/ Return
    \/ CallAgain

\* ----------------------------------------------------------------- inputs
o == <<"o">>
u == <<"u">>
h == StrV(<<"h">>)

DirKeys == {Path(FALSE, <<"a">>), Path(TRUE, <<"w", "a">>), Path(TRUE, <<"b">>)}
AbsPaths == {abspath(k) : k \in DirKeys}

Missing == WorkingCopy(FALSE, FALSE, <<>>)
NotGit == WorkingCopy(TRUE, FALSE, <<>>)
WorkingCopies ==
    {Missing, NotGit, WorkingCopy(TRUE, TRUE, <<>>),
     WorkingCopy(TRUE, TRUE, <<Remote(o, h)>>)}

RemotesValues ==
    {RemotesKey(FALSE, <<>>), RemotesKey(TRUE, <<>>),
     RemotesKey(TRUE, <<Remote(o, h)>>),
     RemotesKey(TRUE, <<Remote(o, h), Remote(u, h)>>),
     RemotesKey(TRUE, <<Remote(o, h), Remote(u, StrV(<<>>))>>)}

MergeEntries ==
    {MergeStr(<<"o", " ", "m">>), MergeStr(<<"o", " ", "a", "7">>),
     MergeStr(<<"u", " ", "m">>), MergeStr(<<"o">>),
     MergeStr(<<"o", " ", " ", "m">>),
     MergeMap(TRUE, StrV(o), TRUE, FloatV(140)),
     MergeMap(TRUE, IntV(7), FALSE, NoneV),
     MergeMap(FALSE, NoneV, TRUE, StrV(<<"m">>)),
     MergeOther}

SeqsUpTo(S, n) == UNION {[1..k -> S] : k \in 0..n}

MergesValues ==
    {MergesKey(FALSE, <<>>)} \cup {MergesKey(TRUE, l) : l \in SeqsUpTo(MergeEntries, MaxMerges)}
MergesFew ==
    {MergesKey(TRUE, <<MergeStr(<<"o", " ", "m">>)>>),
     MergesKey(TRUE, <<MergeMap(TRUE, StrV(u), TRUE, IntV(14))>>)}

TargetValues ==
    {TargetKey(FALSE, NoneV), TargetKey(TRUE, StrV(<<" ", "\t">>)),
     TargetKey(TRUE, StrV(<<"m">>)), TargetKey(TRUE, FloatV(80)),
     TargetKey(TRUE, NoneV), TargetKey(TRUE, StrV(<<"o", " ", "m">>)),
     TargetKey(TRUE, StrV(<<" ", "u", "\t", " ", "m">>)),
     TargetKey(TRUE, StrV(<<"o", " ", "m", " ", "a">>))}
TargetsFew == {TargetKey(FALSE, NoneV), TargetKey(TRUE, StrV(<<"u", " ", "m">>))}

\* one directory: every merges value with a few targets, and every target
\* value with a few merges
RepoDatasOne ==
    {RepoData(r, m, t) : r \in RemotesValues, m \in MergesValues, t \in TargetsFew}
    \cup {RepoData(r, m, t) : r \in RemotesValues, m \in MergesFew, t \in TargetValues}

\* several directories: one value per way a directory resolves or fails
RepoDatasFew ==
    {RepoData(RemotesKey(TRUE, <<Remote(o, h)>>),
              MergesKey(TRUE, <<MergeStr(<<"o", " ", "m">>)>>),
              TargetKey(FALSE, NoneV)),
     RepoData(RemotesKey(FALSE, <<>>),
              MergesKey(TRUE, <<MergeMap(TRUE, StrV(o), TRUE, FloatV(140))>>),
              TargetKey(TRUE, StrV(<<"o", " ", "m">>))),
     RepoData(RemotesKey(TRUE, <<Remote(u, h), Remote(o, StrV(<<>>))>>),
              MergesKey(TRUE, <<MergeStr(<<"u", " ", "m">>)>>),
              TargetKey(FALSE, NoneV)),
     RepoData(RemotesKey(TRUE, <<Remote(u, h)>>),
              MergesKey(FALSE, <<>>),
              TargetKey(FALSE, NoneV)),
     RepoData(RemotesKey(TRUE, <<Remote(u, h), Remote(o, h)>>),
              MergesKey(TRUE, <<MergeStr(<<"o", " ", "a", "7">>), MergeStr(<<"x", " ", "m">>)>>),
              TargetKey(FALSE, NoneV)),
     RepoData(RemotesKey(TRUE, <<Remote(o, h)>>),
              MergesKey(TRUE, <<MergeStr(<<"o", " ", "m">>)>>),
              TargetKey(TRUE, StrV(<<"u", " ", "m">>)))}

Injective(f) == \A a, b \in DOMAIN f : a /= b => f[a] /= f[b]
KeySeqs(n) == {ks \in SeqsUpTo(DirKeys, n) : Injective(ks)}

Start ==
    /\ pc = "remotes"
    /\ di = 1
    /\ remotes = <<>>
    /\ remote_names = {}
    /\ tmp_repo = "None"
    /\ si = 0
    /\ mi = 0
    /\ merges = <<>>
    /\ repo_list = <<>>
    /\ ret = Pending
    /\ calls = <<>>
    /\ outcomes = <<>>
    /\ ncall = 1
    /\ prev = Pending
    /\ wc0 = wc

\* a mapping of up to MaxDirs directories
InitMany ==
    /\ \E ks \in KeySeqs(MaxDirs) :
         \E ds \in [1..Len(ks) -> RepoDatasFew] :
            config = [k \in 1..Len(ks) |-> Entry(ks[k], ds[k])]
    /\ force \in BOOLEAN
    /\ skip_merge_check \in BOOLEAN
    /\ wc \in [AbsPaths -> {Missing, NotGit, WorkingCopy(TRUE, TRUE, <<Remote(o, h)>>)}]
    /\ Start

\* a mapping of one directory
InitOne ==
    /\ \E d \in RepoDatasOne : config = <<Entry(Path(FALSE, <<"a">>), d)>>
    /\ force = FALSE
    /\ skip_merge_check \in BOOLEAN
    /\ \E w \in WorkingCopies :
         wc = [p \in AbsPaths |-> IF p = Path(TRUE, <<"w", "a">>) THEN w ELSE Missing]
    /\ Start

Init == InitMany \/ InitOne

Spec == Init /\ [][Next]_vars

\* ============================================================== properties
\* the repo dictionaries built so far and the ones given back
RepoSpecs == {repo_list[k] : k \in 1..Len(repo_list)}
               \cup {ret.list[k] : k \in 1..Len(ret.list)}
CwdOf(d) == abspath(config[d].dir)
CallsOf(op, d) == SelectSeq(calls, LAMBDA c : c.op = op /\ c.d = d)
SetRemoteCalls == {k \in 1..Len(calls) : calls[k].op = "setRemote"}
QueryCalls == {k \in 1..Len(calls) : calls[k].op = "queryRemoteRef"}

\* C1: in every repo dictionary built or returned, each merge's remote is a
\* name of its remotes list, and the target's remote is none or such a name.
C1_ForeignKeys ==
    \A r \in RepoSpecs :
        /\ \A j \in 1..Len(r.merges) : r.merges[j].remote \in Names(r.remotes)
        /\ r.target.remote.some => r.target.remote.name \in Names(r.remotes)

C1_Witness ==
    /\ ret.kind = "list"
    /\ \E k \in 1..Len(ret.list) :
          /\ ret.list[k].target.remote.some
          /\ Len(ret.list[k].merges) = 2
          /\ Len(ret.list[k].remotes) = 2

\* C2: every repo dictionary built or returned has a non-empty remotes list,
\* whether the remotes came from the configuration or from the working copy.
C2_RemotesNonEmpty == \A r \in RepoSpecs : r.remotes /= <<>>

C2_Witness ==
    /\ ret.kind = "list"
    /\ \E k \in 1..Len(ret.list) :
          /\ ~config[k].data.remotes.present
          /\ ret.list[k].remotes /= <<>>

EndsAtOnce ==
    /\ (pc = "raised") =>
          /\ ret.kind = "ConfigException"
          /\ ret.list = <<>>
          /\ di \in 1..Len(config)
          /\ ret.err.dir = CwdOf(di)
          /\ Len(repo_list) = di - 1
          /\ \A k \in 1..Len(calls) : calls[k].d <= di
    /\ (ret.kind = "list") =>
          /\ Len(ret.list) = Len(config)
          /\ \A k \in 1..Len(config) : ret.list[k].cwd = CwdOf(k)
    /\ (ret.kind = "pending") => pc \notin {"raised", "returned"}

\* after the exception the only step is a new call of get_repos
NoStepAfter ==
    (pc = "raised") => (pc' = "remotes" /\ di' = 1 /\ calls' = <<>> /\ ncall' = ncall + 1)

\* C3: a ConfigException ends the call at once: nothing is returned, the
\* error is the one of the directory being resolved, every directory before
\* it was resolved, no Repo method was called for a later directory and no
\* step of the call follows; a returned list has one entry per directory.
C3_FailFast == [](EndsAtOnce) /\ [][NoStepAfter]_vars

C3_Witness ==
    /\ pc = "raised"
    /\ di < Len(config)
    /\ calls /= <<>>

\* the text of the remote and ref of an input merge entry
EntryRemote(e) == IF e.t = "str" THEN SplitSpace(e.s)[1] ELSE Str(e.remote)
EntryRef(e) == IF e.t = "str" THEN SplitSpace(e.s)[2] ELSE Str(e.ref)

RECURSIVE KeptOf(_, _)
\* the first k input entries of this directory, in order, without those the
\* query did not find and whose ref is not hexadecimal
KeptOf(k, outs) ==
    IF k = 0 THEN <<>>
    ELSE LET e == merge_data[k]
             dropped == outs[k] = "notfound" /\ ~ishex(EntryRef(e))
         IN IF dropped THEN KeptOf(k - 1, outs)
            ELSE Append(KeptOf(k - 1, outs),
                        [remote |-> EntryRemote(e), ref |-> EntryRef(e)])

KeptInOrder ==
    (pc = "merge" /\ ~skip_merge_check) =>
        /\ Len(outcomes) = mi
        /\ \A k \in 1..mi : outcomes[k] \in {"found", "notfound", "error"}
        /\ merges = KeptOf(mi, outcomes)

QueryNeverRaises ==
    (pc = "merge" /\ Len(outcomes') > Len(outcomes)) => pc' = "merge"

\* C4: while the entries of a directory are checked against the remote, the
\* merges list is the input entries processed so far, in input order, minus
\* those not found with a non-hexadecimal ref; found, hexadecimal and failed
\* queries keep the entry, and a query's answer never ends the call.
C4_PreFlight == [](KeptInOrder) /\ [][QueryNeverRaises]_vars

C4_Witness ==
    /\ pc = "merge"
    /\ ~skip_merge_check
    /\ mi = 2
    /\ mi = Len(merge_data)
    /\ outcomes \in {<<"notfound", "error">>, <<"error", "notfound">>}
    /\ Len(merges) = 1

NoneLeftRaises ==
    (pc = "merge" /\ mi = Len(merge_data) /\ merges = <<>>) =>
        /\ pc' = "raised"
        /\ ret' = Raised(ConfigException(E_NO_MERGE, CwdOf(di), NoName))

\* C5: when all entries of a directory are processed and none is left, the
\* call raises "at least one merge" for that directory; no repo dictionary
\* has an empty merges list.
C5_AtLeastOneMerge ==
    [](\A r \in RepoSpecs : r.merges /= <<>>) /\ [][NoneLeftRaises]_vars

C5_Witness ==
    /\ pc = "raised"
    /\ ret.err.code = E_NO_MERGE
    /\ Len(merge_data) = 2
    /\ outcomes = <<"notfound", "notfound">>

\* C6 (as claimed): a ref is queried only with skip_merge_check false and for
\* a directory whose working copy exists on disk.
C6_QueryOnlyOnDisk ==
    \A k \in QueryCalls :
        /\ ~skip_merge_check
        /\ wc[CwdOf(calls[k].d)].exists

\* C7 (as claimed): when the call ends with a ConfigException, no working
\* copy's remotes have been modified.
C7_NothingModified == (pc = "raised") => wc = wc0

\* C7 (amended): when the call ends with a ConfigException, a working copy
\* is modified only if skip_merge_check is false, it existed on disk, and it
\* is the directory of an entry, up to the failing one, that has the merges
\* key; with skip_merge_check true nothing is modified and no _set_remote is
\* called.
C7_ModifiedOnlyByPreFlight ==
    (pc = "raised") =>
        /\ skip_merge_check => (wc = wc0 /\ SetRemoteCalls = {})
        /\ \A p \in AbsPaths :
              wc[p] /= wc0[p] =>
                 /\ ~skip_merge_check
                 /\ wc0[p].exists
                 /\ \E k \in 1..di : /\ CwdOf(k) = p
                                     /\ config[k].data.merges.present
                                     /\ CallsOf("setRemote", k) /= <<>>

C7_Witness ==
    /\ pc = "raised"
    /\ wc /= wc0

\* the target of this directory as text, and where its tokens start
TargetText == Str(TargetValue(repo_data))
TokenStarts(s) ==
    {p \in 1..Len(s) : s[p] \notin Whitespace /\ (p = 1 \/ s[p - 1] \in Whitespace)}
NumTokens(s) == Cardinality(TokenStarts(s))
Token(s, k) == SplitWhitespace(s)[k]
Appended(t) ==
    /\ pc' = "remotes"
    /\ Len(repo_list') = Len(repo_list) + 1
    /\ repo_list'[Len(repo_list')].target = t
TargetRaises(code) ==
    /\ pc' = "raised"
    /\ repo_list' = repo_list
    /\ ret'.kind = "ConfigException"
    /\ ret'.err.code = code

TargetStep ==
    (pc = "merge" /\ mi = Len(merge_data) /\ merges /= <<>>) =>
        LET s == TargetText
            n == NumTokens(s)
        IN /\ n = 0 => Appended(Target(NoRemote, DefaultBranch))
           /\ n = 1 => Appended(Target(NoRemote, Token(s, 1)))
           /\ (n = 2 /\ Token(s, 1) \in Names(remotes)) =>
                 Appended(Target(SomeRemote(Token(s, 1)), Token(s, 2)))
           /\ (n = 2 /\ Token(s, 1) \notin Names(remotes)) =>
                 TargetRaises(E_TARGET_REMOTE)
           /\ n >= 3 => TargetRaises(E_TARGET_FORMAT)

\* C8: once the merges of a directory are settled, its target resolves by
\* the number of whitespace-separated tokens of its text: none gives the
\* branch _git_aggregated without remote, one gives that token as branch
\* without remote, two give remote and branch if the remote is defined and a
\* ConfigException otherwise, three or more give a ConfigException.
C8_TargetArity == [][TargetStep]_vars

C8_Witness ==
    /\ ret.kind = "list"
    /\ \E k \in 1..Len(ret.list) :
          /\ config[k].data.target.present
          /\ config[k].data.target.v = StrV(<<" ", "u", "\t", " ", "m">>)
          /\ ret.list[k].target = Target(SomeRemote(u), <<"m">>)

\* C9: with skip_merge_check true, resolving the same mapping again gives
\* back what the previous call gave back: the same list or the same error.
C9_Idempotent ==
    (skip_merge_check /\ ncall > 1 /\ Ended) => ret = prev

C9_Witness ==
    /\ skip_merge_check
    /\ ncall = 2
    /\ ret.kind = "list"
    /\ \E k \in 1..Len(ret.list) :
          /\ config[k].data.merges.items[1].t = "map"
          /\ ret.list[k].merges[1].ref = <<"1", "4", ".", "0">>

\* C10: _set_remote is called only with the merges key present,
\* skip_merge_check false and the working copy on disk; it is called once
\* per remote, in the order of the remotes list, before any merge entry of
\* the directory is processed, and never after a ref query of the directory.
C10_SetRemoteFirst ==
    /\ \A k \in SetRemoteCalls :
          /\ ~skip_merge_check
          /\ config[calls[k].d].data.merges.present
          /\ wc[CwdOf(calls[k].d)].exists
    /\ \A j \in QueryCalls : \A k \in SetRemoteCalls :
          calls[j].d = calls[k].d => k < j
    /\ (pc = "set_remote") => (mi = 0 /\ outcomes = <<>> /\ merges = <<>>)
    /\ (pc = "set_remote") =>
          CallsOf("setRemote", di) =
             [k \in 1..si |-> Call("setRemote", di, remotes[k].name, remotes[k].url)]
    /\ (pc = "merge") =>
          CallsOf("setRemote", di) =
             IF ~skip_merge_check /\ wc[directory].exists
             THEN [k \in 1..Len(remotes) |->
                      Call("setRemote", di, remotes[k].name, remotes[k].url)]
             ELSE <<>>

C10_Witness ==
    /\ pc = "merge"
    /\ mi = 2
    /\ Len(CallsOf("setRemote", di)) = 2
    /\ Len(CallsOf("queryRemoteRef", di)) = 2

====
